---- MODULE Spec2Model ----
(***************************************************************************)
(* Storefront backend (backend/app.py): identity store, catalog, address   *)
(* book, order ledger on PostgreSQL, the in-process metrics map and the    *)
(* admin gate.                                                             *)
(*                                                                         *)
(* Values of JSON bodies are records [t, s, n]: t is the JSON type, s the  *)
(* characters of a string (a sequence of one-character strings), n the     *)
(* number.  Money is counted in thousandths of the currency unit (mills),  *)
(* so that a price with more than two decimals can be written; a           *)
(* DECIMAL(10,2) column holds multiples of 10 mills.                       *)
(***************************************************************************)
EXTENDS Integers, Sequences, FiniteSets, TLC

\* ------------------------------------------------------------ bounds
MaxRequests == 4
MaxOrderRequests == 2
MaxCart == 2
NProcs == 2
NThreads == 3
MaxAuthCalls == 3
MaxValidations == 1
MaxMetricRequests == 6
MaxPhoneLen == 11

\* ------------------------------------------------------------ JSON values
Null == [t |-> "null", s |-> <<>>, n |-> 0]
Missing == [t |-> "missing", s |-> <<>>, n |-> 0]
Str(chars) == [t |-> "str", s |-> chars, n |-> 0]
Num(k) == [t |-> "num", s |-> <<>>, n |-> k]

\* Python truthiness of a JSON value: None, "" and 0 are falsy.
Truthy(v) ==
    \/ v.t = "str" /\ v.s # <<>>
    \/ v.t = "num" /\ v.n # 0

\* dict.get(key): an absent key reads as None.
Get(v) == IF v = Missing THEN Null ELSE v

\* str.isdigit(): the characters Unicode classes as digits.  The model carries
\* the ten ASCII digits and, written as its code point, one digit of another
\* script (ARABIC-INDIC DIGIT THREE).
ArabicThree == "U+0663"
Digits == {"0", "1", "2", "3", "4", "5", "6", "7", "8", "9", ArabicThree}

MobileLen == 10
MinPasswordLen == 6

\* a slip: the length is not checked
validate_mobile_nolen(mobile) ==
    /\ Truthy(mobile)
    /\ mobile.t = "str"
    /\ \A i \in 1..Len(mobile.s) : mobile.s[i] \in Digits

validate_mobile(mobile) ==
    /\ Truthy(mobile)
    /\ mobile.t = "str"
    /\ Len(mobile.s) = MobileLen
    /\ \A i \in 1..Len(mobile.s) : mobile.s[i] \in Digits

ADMIN_MOBILE == Str(<<"9", "9", "9", "9", "9", "9", "9", "9", "9", "9">>)
CustMobile == Str(<<"1", "2", "3", "4", "5", "6", "7", "8", "9", "0">>)
ShortMobile == Str(<<"1", "2", "3", "4", "5">>)
AlphaMobile == Str(<<"1", "2", "3", "4", "5", "6", "7", "8", "9", "a">>)

\* ------------------------------------------------------------ password hashing
\* generate_password_hash draws a salt and stores it beside the digest;
\* check_password_hash recomputes the digest of the candidate under the
\* stored salt.  The digest is an injective function of (salt, password).
Salts == {"s1", "s2"}
Digest(salt, password) == <<salt, password.s>>
generate_password_hash(salt, password) ==
    [salt |-> salt, digest |-> Digest(salt, password)]
check_password_hash_any(hashed, password) == TRUE
check_password_hash(hashed, password) ==
    hashed.digest = Digest(hashed.salt, password)

\* ------------------------------------------------------------ metrics map
StartTime == 0

\* defaultdict(float): an absent counter reads as zero
MetricValue(m, name) == IF name \in DOMAIN m THEN m[name] ELSE 0

\* with metrics_lock: metrics[name] += value
track_metric(m, name, value) ==
    [k \in DOMAIN m \cup {name} |->
        IF k = name THEN MetricValue(m, name) + value ELSE m[k]]

\* a slip: every failure counted as a client error
after_request_all_4xx(m, status) ==
    IF status >= 400 THEN track_metric(m, "errors_4xx", 1)
    ELSE m

\* after_request: one error counter per failed response
after_request(m, status) ==
    IF status >= 500 THEN track_metric(m, "errors_5xx", 1)
    ELSE IF status >= 400 THEN track_metric(m, "errors_4xx", 1)
    ELSE m

\* ------------------------------------------------------------ state
VARIABLES
    users,         \* rows of table users: [id, mobile, password]
    products,      \* rows of table products: [id, name, quantity, price, unit]
    addresses,     \* rows of table addresses: [id, user_id, mobile, address_line, city]
    orders,        \* committed rows of table orders
    order_items,   \* committed rows of table order_items
    seq,           \* the SERIAL sequences: last id handed out, per table
    metrics,       \* the metrics map: counter name -> value
    req,           \* the request handled last
    resp,          \* its response
    nReq,          \* requests handled so far
    proc,          \* requests in flight, statement by statement (place_order, my_orders)
    thr,           \* threads inside track_metric / get_all_metrics
    metrics_lock,  \* holder of metrics_lock, 0 when free
    registered,    \* history: mobile -> the password given when it was registered
    placed         \* history: the orders place_order answered 201 for, with their carts

dbvars == <<users, products, addresses, orders, order_items, seq>>
concvars == <<proc, thr, metrics_lock>>
vars == <<users, products, addresses, orders, order_items, seq, metrics,
          req, resp, nReq, proc, thr, metrics_lock, registered, placed>>

Tables == {"users", "products", "addresses", "orders", "order_items"}

\* nextval of a SERIAL column: never given back, also when the transaction aborts
NextVal(s, table) == s[table] + 1
Advance(s, table, k) == [s EXCEPT ![table] = @ + k]

\* DECIMAL(10,2): a numeric is rounded to two decimals, halves away from zero
RoundCents(m) == ((m + 5) \div 10) * 10

Response(status, msg, data) == [status |-> status, msg |-> msg, data |-> data]

\* SELECT ... FROM users WHERE mobile=%s; fetchone()
UserByMobile_any(us, mobile) == us
UserByMobile(us, mobile) == {u \in us : u.mobile = mobile.s}

role_of(mobile) == IF mobile = ADMIN_MOBILE THEN "admin" ELSE "customer"

\* ------------------------------------------------------------ POST /api/auth
Secret == Str(<<"s", "e", "c", "r", "e", "t">>)
Hunter == Str(<<"h", "u", "n", "t", "e", "r", "2">>)
ShortPw == Str(<<"a", "b", "c">>)

AuthMobiles == {Missing, ADMIN_MOBILE, CustMobile, ShortMobile, AlphaMobile}
AuthPasswords == {Missing, Secret, Hunter, ShortPw, Num(1234567)}

\* the response of auth() on the table as it stands
auth_response(us, mobile, password) ==
    IF ~Truthy(mobile) \/ ~Truthy(password)
    THEN Response(400, "Mobile and password required", "-")
    ELSE IF ~validate_mobile(mobile)
    THEN Response(400, "Invalid mobile number", "-")
    ELSE IF password.t # "str"
    THEN Response(500, "TypeError", "-")
    ELSE IF Len(password.s) < MinPasswordLen
    THEN Response(400, "Password must be at least 6 characters", "-")
    ELSE IF UserByMobile(us, mobile) = {}
    THEN Response(201, "Account created", role_of(mobile))
    ELSE IF \E u \in UserByMobile(us, mobile) : check_password_hash(u.password, password)
    THEN Response(200, "Login successful", role_of(mobile))
    ELSE Response(401, "Invalid credentials", "-")

auth_metrics_on_register(m, r) ==
    IF r.status \in {200, 201} THEN track_metric(m, "login_successful", 1)
    ELSE IF r.status = 401 THEN track_metric(m, "login_failed", 1)
    ELSE m

\* the counter auth() tracks for a response
auth_metrics(m, r) ==
    IF r.status = 200 THEN track_metric(m, "login_successful", 1)
    ELSE IF r.status = 401 THEN track_metric(m, "login_failed", 1)
    ELSE m

Auth(mobile_in, password_in, salt) ==
    LET mobile == Get(mobile_in)
        password == Get(password_in)
        r == auth_response(users, mobile, password)
    IN  /\ req' = [op |-> "auth", mobile |-> mobile, password |-> password]
        /\ resp' = r
        /\ IF r.status = 201
           THEN /\ users' = users \cup
                      {[id |-> NextVal(seq, "users"), mobile |-> mobile.s,
                        password |-> generate_password_hash(salt, password)]}
                /\ seq' = Advance(seq, "users", 1)
                /\ registered' = (mobile.s :> password) @@ registered
           ELSE UNCHANGED <<users, seq, registered>>
        /\ metrics' = after_request(auth_metrics(metrics, r), r.status)
        /\ nReq' = nReq + 1
        /\ UNCHANGED <<products, addresses, orders, order_items>>
        /\ UNCHANGED <<proc, thr, metrics_lock, placed>>

\* ------------------------------------------------------------ admin gate
\* admin_required: the candidate is the body's mobile, else the path
\* parameter mobile, else the header Mobile ("not mobile" moves on to the next)
admin_candidate_header_first(body_mobile, path_mobile, header_mobile) ==
    IF Truthy(header_mobile) THEN header_mobile
    ELSE IF Truthy(path_mobile) THEN path_mobile
    ELSE Get(body_mobile)

admin_candidate(body_mobile, path_mobile, header_mobile) ==
    LET m1 == Get(body_mobile)
        m2 == IF ~Truthy(m1) THEN path_mobile ELSE m1
    IN  IF ~Truthy(m2) THEN header_mobile ELSE m2

admin_allowed_any(candidate) == TRUE

admin_allowed(candidate) == candidate = ADMIN_MOBILE

Unauthorized == Response(403, "Unauthorized access", "-")

PathMobiles == {ADMIN_MOBILE, CustMobile}

GateReq(op, b, p, h) ==
    [op |-> op, body_mobile |-> b, path_mobile |-> p, header_mobile |-> h,
     candidate |-> admin_candidate(b, p, h)]

\* ------------------------------------------------------------ catalog
Rice == Str(<<"R", "i", "c", "e">>)
Kg == Str(<<"k", "g">>)

\* bodies of POST/PUT /api/admin/products; price in mills
ProductData ==
    {[name |-> Rice, quantity |-> 5, price |-> 50000, unit |-> Kg],
     [name |-> Rice, quantity |-> 4, price |-> 45500, unit |-> Kg]}

ProductRow(id, data) ==
    [id |-> id, name |-> data.name, quantity |-> data.quantity,
     price |-> RoundCents(data.price), unit |-> data.unit]

\* GET /api/products: SELECT * FROM products ORDER BY id
RECURSIVE SortAsc(_)
SortAsc(rows) ==
    IF rows = {} THEN <<>>
    ELSE LET r == CHOOSE x \in rows : \A y \in rows : x.id <= y.id
         IN  <<r>> \o SortAsc(rows \ {r})

RECURSIVE SortDesc(_)
SortDesc(rows) ==
    IF rows = {} THEN <<>>
    ELSE LET r == CHOOSE x \in rows : \A y \in rows : x.id >= y.id
         IN  <<r>> \o SortDesc(rows \ {r})

\* a slip: the listing served without counting the view
GetProducts_untracked ==
    /\ req' = [op |-> "get_products"]
    /\ resp' = Response(200, "products", SortAsc(products))
    /\ metrics' = after_request(metrics, 200)
    /\ nReq' = nReq + 1
    /\ UNCHANGED dbvars
    /\ UNCHANGED <<proc, thr, metrics_lock, registered, placed>>

\* GET /api/products, the whole handler
GetProducts ==
    /\ req' = [op |-> "get_products"]
    /\ resp' = Response(200, "products", SortAsc(products))
    /\ metrics' = after_request(track_metric(metrics, "products_viewed", 1), 200)
    /\ nReq' = nReq + 1
    /\ UNCHANGED dbvars
    /\ UNCHANGED <<proc, thr, metrics_lock, registered, placed>>

AddProduct(b, h, data) ==
    LET rq == GateReq("add_product", b, Null, h)
        ok == admin_allowed(rq.candidate)
        r == IF ok THEN Response(201, "Product added", "-") ELSE Unauthorized
    IN  /\ req' = rq
        /\ resp' = r
        /\ IF ok
           THEN /\ products' = products \cup {ProductRow(NextVal(seq, "products"), data)}
                /\ seq' = Advance(seq, "products", 1)
                /\ metrics' = after_request(track_metric(metrics, "products_added", 1), r.status)
           ELSE /\ UNCHANGED <<products, seq>>
                /\ metrics' = after_request(metrics, r.status)
        /\ nReq' = nReq + 1
        /\ UNCHANGED <<users, addresses, orders, order_items>>
        /\ UNCHANGED <<proc, thr, metrics_lock, registered, placed>>

\* the update carried over to the item rows sold under the product's name
UpdateProduct_cascade(b, h, product_id, data) ==
    LET rq == GateReq("update_product", b, Null, h)
        ok == admin_allowed(rq.candidate)
        r == IF ok THEN Response(200, "Product updated", "-") ELSE Unauthorized
    IN  /\ req' = rq
        /\ resp' = r
        /\ IF ok
           THEN /\ products' = {IF p.id = product_id THEN ProductRow(p.id, data) ELSE p :
                                p \in products}
                /\ order_items' = {IF i.product_name = data.name
                                   THEN [i EXCEPT !.price = RoundCents(data.price)]
                                   ELSE i : i \in order_items}
                /\ metrics' = after_request(track_metric(metrics, "products_updated", 1), r.status)
           ELSE /\ UNCHANGED <<products, order_items>>
                /\ metrics' = after_request(metrics, r.status)
        /\ nReq' = nReq + 1
        /\ UNCHANGED <<users, addresses, orders, seq>>
        /\ UNCHANGED <<proc, thr, metrics_lock, registered, placed>>

\* PUT /api/admin/products/<product_id>
UpdateProduct(b, h, product_id, data) ==
    LET rq == GateReq("update_product", b, Null, h)
        ok == admin_allowed(rq.candidate)
        r == IF ok THEN Response(200, "Product updated", "-") ELSE Unauthorized
    IN  /\ req' = rq
        /\ resp' = r
        /\ IF ok
           THEN /\ products' = {IF p.id = product_id THEN ProductRow(p.id, data) ELSE p :
                                p \in products}
                /\ metrics' = after_request(track_metric(metrics, "products_updated", 1), r.status)
           ELSE /\ UNCHANGED products
                /\ metrics' = after_request(metrics, r.status)
        /\ nReq' = nReq + 1
        /\ UNCHANGED <<users, addresses, orders, order_items, seq>>
        /\ UNCHANGED <<proc, thr, metrics_lock, registered, placed>>

DeleteProduct(b, h, product_id) ==
    LET rq == GateReq("delete_product", b, Null, h)
        ok == admin_allowed(rq.candidate)
        r == IF ok THEN Response(200, "Product deleted", "-") ELSE Unauthorized
    IN  /\ req' = rq
        /\ resp' = r
        /\ IF ok
           THEN /\ products' = {p \in products : p.id # product_id}
                /\ metrics' = after_request(track_metric(metrics, "products_deleted", 1), r.status)
           ELSE /\ UNCHANGED products
                /\ metrics' = after_request(metrics, r.status)
        /\ nReq' = nReq + 1
        /\ UNCHANGED <<users, addresses, orders, order_items, seq>>
        /\ UNCHANGED <<proc, thr, metrics_lock, registered, placed>>

\* ------------------------------------------------------------ address book
Lane == Str(<<"L", "a", "n", "e">>)
Pune == Str(<<"P", "u", "n", "e">>)

\* GET /api/addresses/<mobile>
GetAddresses(mobile) ==
    LET r == IF ~validate_mobile(mobile)
             THEN Response(400, "Invalid mobile number", "-")
             ELSE Response(200, "addresses",
                    SortAsc({a \in addresses :
                               \E u \in UserByMobile(users, mobile) : a.user_id = u.id}))
    IN  /\ req' = [op |-> "get_addresses", mobile |-> mobile]
        /\ resp' = r
        /\ metrics' = after_request(metrics, r.status)
        /\ nReq' = nReq + 1
        /\ UNCHANGED dbvars
        /\ UNCHANGED <<proc, thr, metrics_lock, registered, placed>>

\* POST /api/address
AddAddress(mobile_in, line_in) ==
    LET mobile == Get(mobile_in)
        address_line == Get(line_in)
        found == UserByMobile(users, mobile)
        id == NextVal(seq, "addresses")
        r == IF ~Truthy(mobile) \/ ~validate_mobile(mobile)
             THEN Response(400, "Valid mobile number required", "-")
             ELSE IF ~Truthy(address_line)
             THEN Response(400, "Address line is required", "-")
             ELSE IF found = {}
             THEN Response(404, "User not found", "-")
             ELSE Response(201, "Address saved successfully", id)
    IN  /\ req' = [op |-> "add_address", mobile |-> mobile, address_line |-> address_line]
        /\ resp' = r
        /\ IF r.status = 201
           THEN /\ addresses' = addresses \cup
                      {[id |-> id, user_id |-> (CHOOSE u \in found : TRUE).id,
                        mobile |-> mobile.s, address_line |-> address_line, city |-> Pune]}
                /\ seq' = Advance(seq, "addresses", 1)
                /\ metrics' = after_request(track_metric(metrics, "addresses_added", 1), r.status)
           ELSE /\ UNCHANGED <<addresses, seq>>
                /\ metrics' = after_request(metrics, r.status)
        /\ nReq' = nReq + 1
        /\ UNCHANGED <<users, products, orders, order_items>>
        /\ UNCHANGED <<proc, thr, metrics_lock, registered, placed>>

\* ------------------------------------------------------------ order ledger
Placed == Str(<<"P", "L", "A", "C", "E", "D">>)
Shipped == Str(<<"S", "H", "I", "P", "P", "E", "D">>)

NoCart == [t |-> "null", items |-> <<>>]
Cart(items) == [t |-> "list", items |-> items]

\* "not cart": None and [] are falsy
CartTruthy(cart) == cart.t = "list" /\ cart.items # <<>>

\* item["price"] * item["quantity"] raises KeyError on an absent key
PriceQtyOk(items) ==
    \A i \in 1..Len(items) : items[i].price # Missing /\ items[i].quantity # Missing

\* total = sum(item["price"] * item["quantity"] for item in cart), in mills
RECURSIVE cart_total(_)
cart_total(items) ==
    IF items = <<>> THEN 0
    ELSE Head(items).price.n * Head(items).quantity.n + cart_total(Tail(items))

\* the first cart entry whose INSERT parameters raise KeyError (item["name"],
\* item["unit"]); 0 when there is none
FirstBad(items) ==
    LET bad == {k \in 1..Len(items) : items[k].name = Missing \/ items[k].unit = Missing}
    IN  IF bad = {} THEN 0 ELSE CHOOSE k \in bad : \A j \in bad : k <= j

\* orders.address_id REFERENCES addresses(id)
AddressExists(ads, address_id) ==
    address_id.t = "num" /\ \E a \in ads : a.id = address_id.n

\* INSERT INTO orders (user_id, address_id, total_amount); status DEFAULT 'PLACED'
OrderRow(id, user_id, address_id, total) ==
    [id |-> id, user_id |-> user_id, address_id |-> address_id.n,
     total_amount |-> RoundCents(total), status |-> Placed]

\* INSERT INTO order_items (order_id, product_name, price, quantity, unit)
ItemRow(id, order_id, item) ==
    [id |-> id, order_id |-> order_id, product_name |-> item.name,
     price |-> RoundCents(item.price.n), quantity |-> item.quantity.n,
     unit |-> item.unit]

ItemRows(first_id, order_id, items) ==
    {ItemRow(first_id + k - 1, order_id, items[k]) : k \in 1..Len(items)}

place_order_response(us, ads, s, mobile, address_id, cart) ==
    IF ~Truthy(mobile) \/ ~Truthy(address_id) \/ ~CartTruthy(cart)
    THEN Response(400, "Invalid order data", "-")
    ELSE IF UserByMobile(us, mobile) = {}
    THEN Response(404, "User not found", "-")
    ELSE IF ~PriceQtyOk(cart.items)
    THEN Response(500, "KeyError in total", "-")
    ELSE IF ~AddressExists(ads, address_id)
    THEN Response(500, "ForeignKeyViolation", "-")
    ELSE IF FirstBad(cart.items) # 0
    THEN Response(500, "KeyError in item", "-")
    ELSE Response(201, "Order placed", NextVal(s, "orders"))

\* the ids the call draws from the sequences, also when it fails afterwards
place_order_seq(s, r, cart) ==
    IF r.status = 201
    THEN Advance(Advance(s, "orders", 1), "order_items", Len(cart.items))
    ELSE IF r.msg = "ForeignKeyViolation"
    THEN Advance(s, "orders", 1)
    ELSE IF r.msg = "KeyError in item"
    THEN Advance(Advance(s, "orders", 1), "order_items", FirstBad(cart.items) - 1)
    ELSE s

\* orders_placed and orders_total_value, tracked after the commit
place_order_metrics_always(m, r, cart) ==
    track_metric(track_metric(m, "orders_placed", 1), "orders_total_value", 0)

place_order_metrics(m, r, cart) ==
    IF r.status = 201
    THEN track_metric(track_metric(m, "orders_placed", 1),
                      "orders_total_value", cart_total(cart.items))
    ELSE m

\* the handler taking the ordered goods out of the catalog's stock
PlaceOrder_stock(mobile_in, address_in, cart) ==
    LET mobile == Get(mobile_in)
        address_id == Get(address_in)
        r == place_order_response(users, addresses, seq, mobile, address_id, cart)
        user_id == (CHOOSE u \in UserByMobile(users, mobile) : TRUE).id
    IN  /\ req' = [op |-> "place_order", mobile |-> mobile,
                   address_id |-> address_id, cart |-> cart]
        /\ resp' = r
        /\ IF r.status = 201
           THEN /\ orders' = orders \cup
                      {OrderRow(r.data, user_id, address_id, cart_total(cart.items))}
                /\ order_items' = order_items \cup
                      ItemRows(NextVal(seq, "order_items"), r.data, cart.items)
                /\ products' = {IF \E k \in 1..Len(cart.items) : cart.items[k].name = p.name
                                THEN [p EXCEPT !.quantity = @ - 1]
                                ELSE p : p \in products}
           ELSE UNCHANGED <<orders, order_items, products>>
        /\ seq' = place_order_seq(seq, r, cart)
        /\ metrics' = after_request(place_order_metrics(metrics, r, cart), r.status)
        /\ nReq' = nReq + 1
        /\ placed' = IF r.status = 201
                     THEN placed \cup {[mobile |-> mobile, order_id |-> r.data, cart |-> cart]}
                     ELSE placed
        /\ UNCHANGED <<users, addresses>>
        /\ UNCHANGED <<proc, thr, metrics_lock, registered>>

\* POST /api/order, the whole handler
PlaceOrder(mobile_in, address_in, cart) ==
    LET mobile == Get(mobile_in)
        address_id == Get(address_in)
        r == place_order_response(users, addresses, seq, mobile, address_id, cart)
        user_id == (CHOOSE u \in UserByMobile(users, mobile) : TRUE).id
    IN  /\ req' = [op |-> "place_order", mobile |-> mobile,
                   address_id |-> address_id, cart |-> cart]
        /\ resp' = r
        /\ IF r.status = 201
           THEN /\ orders' = orders \cup
                      {OrderRow(r.data, user_id, address_id, cart_total(cart.items))}
                /\ order_items' = order_items \cup
                      ItemRows(NextVal(seq, "order_items"), r.data, cart.items)
           ELSE UNCHANGED <<orders, order_items>>
        /\ seq' = place_order_seq(seq, r, cart)
        /\ metrics' = after_request(place_order_metrics(metrics, r, cart), r.status)
        /\ nReq' = nReq + 1
        /\ placed' = IF r.status = 201
                     THEN placed \cup {[mobile |-> mobile, order_id |-> r.data, cart |-> cart]}
                     ELSE placed
        /\ UNCHANGED <<users, products, addresses>>
        /\ UNCHANGED <<proc, thr, metrics_lock, registered>>

\* SELECT product_name, price, quantity, unit FROM order_items WHERE order_id=%s
ItemsOf(its, order_id) ==
    LET rows == SortAsc({i \in its : i.order_id = order_id})
    IN  [k \in 1..Len(rows) |->
            [product_name |-> rows[k].product_name, price |-> rows[k].price,
             quantity |-> rows[k].quantity, unit |-> rows[k].unit]]

\* one entry of the result list of my_orders / admin_orders
OrderView(o, ads, items) ==
    LET a == CHOOSE x \in ads : x.id = o.address_id
    IN  [id |-> o.id, user_id |-> o.user_id, total_amount |-> o.total_amount,
         status |-> o.status, address_line |-> a.address_line, city |-> a.city,
         items |-> items]

JoinedOrders_placed_only(os, ads) ==
    SortDesc({o \in os : o.status = Placed /\ \E a \in ads : a.id = o.address_id})
\* FROM orders o JOIN addresses a ON o.address_id = a.id ... ORDER BY o.id DESC
JoinedOrders(os, ads) ==
    SortDesc({o \in os : \E a \in ads : a.id = o.address_id})

OrderViews(os, ads, its) ==
    LET rows == JoinedOrders(os, ads)
    IN  [k \in 1..Len(rows) |-> OrderView(rows[k], ads, ItemsOf(its, rows[k].id))]

\* the listing without WHERE u.mobile=%s
MyOrders_everyone(mobile) ==
    /\ req' = [op |-> "my_orders", mobile |-> mobile]
    /\ resp' = Response(200, "orders", OrderViews(orders, addresses, order_items))
    /\ metrics' = after_request(metrics, 200)
    /\ nReq' = nReq + 1
    /\ UNCHANGED dbvars
    /\ UNCHANGED <<proc, thr, metrics_lock, registered, placed>>

\* GET /api/my-orders/<mobile>, the whole handler
MyOrders(mobile) ==
    LET found == UserByMobile(users, mobile)
        mine == {o \in orders : \E u \in found : o.user_id = u.id}
    IN  /\ req' = [op |-> "my_orders", mobile |-> mobile]
        /\ resp' = Response(200, "orders", OrderViews(mine, addresses, order_items))
        /\ metrics' = after_request(metrics, 200)
        /\ nReq' = nReq + 1
        /\ UNCHANGED dbvars
        /\ UNCHANGED <<proc, thr, metrics_lock, registered, placed>>

\* GET /api/admin/orders/<mobile>
AdminOrders(b, p, h) ==
    LET rq == GateReq("admin_orders", b, p, h)
        ok == admin_allowed(rq.candidate)
        r == IF ok THEN Response(200, "orders", OrderViews(orders, addresses, order_items))
             ELSE Unauthorized
    IN  /\ req' = rq
        /\ resp' = r
        /\ metrics' = after_request(metrics, r.status)
        /\ nReq' = nReq + 1
        /\ UNCHANGED dbvars
        /\ UNCHANGED <<proc, thr, metrics_lock, registered, placed>>

\* UPDATE orders SET status=%s WHERE id=%s: the rows it matches (cur.rowcount)
StatusHit(os, order_id) == {o \in os : order_id.t = "num" /\ o.id = order_id.n}

\* ... and the table after it
set_status_everywhere(os, order_id, status) ==
    {[o EXCEPT !.status = status] : o \in os}
set_status(os, order_id, status) ==
    {IF o \in StatusHit(os, order_id) THEN [o EXCEPT !.status = status] ELSE o : o \in os}

update_order_status_response_no_rowcount(os, ok, order_id, status) ==
    IF ~ok THEN Unauthorized
    ELSE IF ~Truthy(order_id) \/ ~Truthy(status) THEN Response(400, "Invalid data", "-")
    ELSE Response(200, "Status updated", "-")
update_order_status_response(os, ok, order_id, status) ==
    IF ~ok THEN Unauthorized
    ELSE IF ~Truthy(order_id) \/ ~Truthy(status) THEN Response(400, "Invalid data", "-")
    ELSE IF StatusHit(os, order_id) = {} THEN Response(404, "Order not found", "-")
    ELSE Response(200, "Status updated", "-")

\* PUT /api/admin/order/status, the whole handler
UpdateOrderStatus(b, h, order_in, status_in) ==
    LET rq == GateReq("update_order_status", b, Null, h)
        order_id == Get(order_in)
        status == Get(status_in)
        r == update_order_status_response(orders, admin_allowed(rq.candidate),
                                          order_id, status)
    IN  /\ req' = [op |-> rq.op, body_mobile |-> b, path_mobile |-> Null,
                   header_mobile |-> h, candidate |-> rq.candidate,
                   order_id |-> order_id, status |-> status]
        /\ resp' = r
        /\ IF r.status = 200
           THEN orders' = set_status(orders, order_id, status)
           ELSE UNCHANGED orders
        /\ metrics' = after_request(metrics, r.status)
        /\ nReq' = nReq + 1
        /\ UNCHANGED <<users, products, addresses, order_items, seq>>
        /\ UNCHANGED <<proc, thr, metrics_lock, registered, placed>>

\* ------------------------------------------------------------ metrics, health
\* get_all_metrics: dict(metrics) under the lock
get_all_metrics(m) == m

\* a slip: the percentage cut off after two decimals
percent_truncated(num, den) == (num * 10000) \div den

\* round((num / den) * 100, 2), counted in hundredths of a percent: the nearest
\* hundredth, a tie going to the even one
percent(num, den) ==
    LET q == (num * 10000) \div den
        twice == 2 * ((num * 10000) % den)
    IN  IF twice < den THEN q
        ELSE IF twice > den THEN q + 1
        ELSE IF q % 2 = 0 THEN q ELSE q + 1

login_success_rate(data) ==
    LET total_logins == MetricValue(data, "login_successful") + MetricValue(data, "login_failed")
    IN  IF total_logins > 0
        THEN percent(MetricValue(data, "login_successful"), total_logins)
        ELSE 0

conversion_rate(data) ==
    IF MetricValue(data, "products_viewed") > 0
    THEN percent(MetricValue(data, "orders_placed"), MetricValue(data, "products_viewed"))
    ELSE 0

\* the body of the metrics response: the snapshot and the two derived rates
metrics_data(m) ==
    LET data == get_all_metrics(m)
    IN  ("login_success_rate_percent" :> login_success_rate(data)) @@
        ("conversion_rate_percent" :> conversion_rate(data)) @@ data

\* GET /api/metrics
GetMetrics ==
    /\ req' = [op |-> "get_metrics"]
    /\ resp' = Response(200, "metrics", metrics_data(metrics))
    /\ metrics' = after_request(metrics, 200)
    /\ nReq' = nReq + 1
    /\ UNCHANGED dbvars
    /\ UNCHANGED <<proc, thr, metrics_lock, registered, placed>>

HealthCheck ==
    /\ req' = [op |-> "health_check"]
    /\ resp' = Response(200, "healthy", "-")
    /\ metrics' = after_request(metrics, 200)
    /\ nReq' = nReq + 1
    /\ UNCHANGED dbvars
    /\ UNCHANGED <<proc, thr, metrics_lock, registered, placed>>

\* ------------------------------------------------------------ initial states
\* The tables outlive the process (init_db: CREATE TABLE IF NOT EXISTS), the
\* metrics map does not: a process starts on whatever earlier runs stored.
NoRequest == [op |-> "none"]
NoResponse == Response(0, "-", "-")

EmptySeq == [t \in Tables |-> 0]

\* one customer, registered with password "secret", and one address of theirs
SeedUsers ==
    {[id |-> 1, mobile |-> CustMobile.s, password |-> generate_password_hash("s1", Secret)]}
SeedAddresses ==
    {[id |-> 1, user_id |-> 1, mobile |-> CustMobile.s, address_line |-> Lane, city |-> Pune]}
SeedSeq == [EmptySeq EXCEPT !["users"] = 1, !["addresses"] = 1]

InitMemory ==
    /\ metrics = ("app_start_time" :> StartTime)
    /\ req = NoRequest
    /\ resp = NoResponse
    /\ nReq = 0
    /\ proc = <<>>
    /\ thr = <<>>
    /\ metrics_lock = 0

InitEmpty ==
    /\ users = {} /\ products = {} /\ addresses = {}
    /\ orders = {} /\ order_items = {}
    /\ seq = EmptySeq
    /\ registered = <<>>
    /\ placed = {}
    /\ InitMemory

InitSeeded ==
    /\ users = SeedUsers /\ products = {} /\ addresses = SeedAddresses
    /\ orders = {} /\ order_items = {}
    /\ seq = SeedSeq
    /\ registered = (CustMobile.s :> Secret)
    /\ placed = {}
    /\ InitMemory

Init == InitEmpty \/ InitSeeded

\* ------------------------------------------------------------ all handlers
OtherMobile == Str(<<"8", "8", "8", "8", "8", "8", "8", "8", "8", "8">>)

ItemRice == [name |-> Rice, price |-> Num(50000), quantity |-> Num(2), unit |-> Kg]
ItemNoName == [name |-> Missing, price |-> Num(50000), quantity |-> Num(1), unit |-> Kg]

\* (body mobile, header Mobile) of the requests to the admin routes
GatePairs == {<<Missing, ADMIN_MOBILE>>, <<CustMobile, ADMIN_MOBILE>>,
              <<ADMIN_MOBILE, CustMobile>>, <<Missing, Null>>}
SmallCarts == {Cart(<<ItemRice>>), Cart(<<ItemRice, ItemRice>>),
               Cart(<<ItemRice, ItemNoName>>)}

Next ==
    /\ nReq < MaxRequests
    /\ \/ \E m \in {ADMIN_MOBILE, CustMobile}, pw \in {Secret, ShortPw} : Auth(m, pw, "s1")
       \/ GetProducts
       \/ \E g \in GatePairs, d \in ProductData : AddProduct(g[1], g[2], d)
       \/ \E g \in GatePairs, d \in ProductData : UpdateProduct(g[1], g[2], 1, d)
       \/ \E g \in GatePairs : DeleteProduct(g[1], g[2], 1)
       \/ GetAddresses(CustMobile)
       \/ \E m \in {CustMobile, ShortMobile}, l \in {Lane, Missing} : AddAddress(m, l)
       \/ \E m \in {ADMIN_MOBILE, CustMobile}, c \in SmallCarts : PlaceOrder(m, Num(1), c)
       \/ \E m \in {ADMIN_MOBILE, CustMobile} : MyOrders(m)
       \/ \E g \in GatePairs, p \in PathMobiles : AdminOrders(g[1], p, g[2])
       \/ \E g \in GatePairs, o \in {Num(1), Num(2)} : UpdateOrderStatus(g[1], g[2], o, Shipped)
       \/ GetMetrics
       \/ HealthCheck

Spec == Init /\ [][Next]_vars

\* ------------------------------------------------------------ identity store alone
NextAuth ==
    /\ nReq < MaxRequests
    /\ \E m \in AuthMobiles, pw \in AuthPasswords, salt \in Salts : Auth(m, pw, salt)

SpecAuth == Init /\ [][NextAuth]_vars

\* what the claims call a phone of exactly 10 digits, and a password long enough
TenDigits(v) ==
    /\ v.t = "str"
    /\ Len(v.s) = 10
    /\ \A i \in 1..Len(v.s) :
          v.s[i] \in {"0", "1", "2", "3", "4", "5", "6", "7", "8", "9", "U+0663"}
SixOrMore(v) == v.t = "str" /\ Len(v.s) >= 6

AuthStep == req'.op = "auth" /\ nReq' = nReq + 1
Known(mobile) == \E u \in users : u.mobile = mobile.s

\* C8: per phone, the first valid call for an unseen phone creates exactly one
\* user and answers Registered (201); every later call answers Authenticated
\* (200) when the password is the one given at registration and
\* InvalidCredentials (401) otherwise, and then the users table (ids, phones,
\* stored hashes) is unchanged.
C8_AuthStateMachine ==
    [][ (AuthStep /\ TenDigits(req'.mobile) /\ SixOrMore(req'.password)) =>
          IF ~Known(req'.mobile)
          THEN /\ resp'.status = 201
               /\ resp'.msg = "Account created"
               /\ \E u \in users' : /\ u.mobile = req'.mobile.s
                                    /\ users' = users \cup {u}
                                    /\ u \notin users
          ELSE /\ users' = users
               /\ IF req'.password = registered[req'.mobile.s]
                  THEN resp'.status = 200 /\ resp'.msg = "Login successful"
                  ELSE resp'.status = 401 /\ resp'.msg = "Invalid credentials"
      ]_vars

\* a phone registered in this run is logged in with its password after a failed attempt
C8_Witness ==
    /\ req.op = "auth" /\ resp.status = 200
    /\ req.mobile = ADMIN_MOBILE
    /\ MetricValue(metrics, "login_failed") >= 1

\* C9: a call with a missing phone or password, a phone that is not exactly 10
\* digits, or a password shorter than 6 characters answers 400, creates no
\* user and changes neither login_successful nor login_failed.
C9_AuthValidation ==
    [][ (AuthStep /\ ( \/ req'.mobile = Null \/ req'.password = Null
                       \/ ~TenDigits(req'.mobile)
                       \/ (req'.password.t = "str" /\ Len(req'.password.s) < 6) )) =>
          /\ resp'.status = 400
          /\ users' = users
          /\ MetricValue(metrics', "login_successful") = MetricValue(metrics, "login_successful")
          /\ MetricValue(metrics', "login_failed") = MetricValue(metrics, "login_failed")
      ]_vars

\* a well-formed phone with a password of three characters was refused
C9_Witness ==
    /\ req.op = "auth" /\ resp.status = 400
    /\ TenDigits(req.mobile) /\ req.password = ShortPw

\* C10: every Authenticated answer adds exactly 1 to login_successful, every
\* InvalidCredentials answer exactly 1 to login_failed, and a Registered answer
\* (like any other) adds to neither.
C10_LoginCounters ==
    [][ AuthStep =>
          /\ MetricValue(metrics', "login_successful") =
                MetricValue(metrics, "login_successful") + (IF resp'.status = 200 THEN 1 ELSE 0)
          /\ MetricValue(metrics', "login_failed") =
                MetricValue(metrics, "login_failed") + (IF resp'.status = 401 THEN 1 ELSE 0)
      ]_vars

\* a registration, a failed and a successful login have all been counted
C10_Witness ==
    /\ req.op = "auth" /\ resp.status = 201
    /\ MetricValue(metrics, "login_successful") = 1
    /\ MetricValue(metrics, "login_failed") = 1

\* ------------------------------------------------------------ admin routes alone
GateBodies == {Missing, ADMIN_MOBILE, CustMobile, OtherMobile}
GatePaths == {ADMIN_MOBILE, CustMobile, OtherMobile}
GateHeaders == {Null, ADMIN_MOBILE, CustMobile, OtherMobile}

NextGate ==
    /\ nReq < MaxRequests
    /\ \/ \E b \in GateBodies, h \in GateHeaders : AddProduct(b, h, CHOOSE d \in ProductData : TRUE)
       \/ \E b \in GateBodies, h \in GateHeaders : DeleteProduct(b, h, 1)
       \/ \E b \in GateBodies, pm \in GatePaths, h \in GateHeaders : AdminOrders(b, pm, h)

SpecGate == Init /\ [][NextGate]_vars

AdminOps == {"add_product", "update_product", "delete_product",
             "admin_orders", "update_order_status"}

\* C6: the gate decides on the body's mobile when the request carries one,
\* whatever the path parameter and the header say, and on the path parameter
\* when the body carries none, whatever the header says.
C6_GatePrecedence ==
    req.op \in AdminOps =>
        /\ TenDigits(req.body_mobile) =>
              (resp.status # 403 <=> req.body_mobile = ADMIN_MOBILE)
        /\ (req.body_mobile = Missing /\ TenDigits(req.path_mobile)) =>
              (resp.status # 403 <=> req.path_mobile = ADMIN_MOBILE)

\* three different phones, the admin's in the body only: let through
C6_Witness ==
    /\ req.op = "admin_orders"
    /\ req.body_mobile = ADMIN_MOBILE
    /\ req.path_mobile = CustMobile
    /\ req.header_mobile = OtherMobile
    /\ resp.status = 200

\* the candidate phone as the precedence body, path, header resolves it
Resolved(rq) ==
    IF rq.body_mobile # Missing THEN rq.body_mobile
    ELSE IF rq.path_mobile # Null THEN rq.path_mobile
    ELSE rq.header_mobile

StatusChanged ==
    \E o \in orders, o2 \in orders' : o.id = o2.id /\ o.status # o2.status

\* C7: a product row is created, changed or deleted, and an order's status
\* changed, only by a request whose resolved candidate is the admin phone;
\* an admin-gated request with any other candidate answers 403 and leaves
\* products and orders as they were.
C7_AdminOnlyWrites ==
    [][ /\ (products' # products \/ StatusChanged) =>
              (req'.op \in AdminOps /\ Resolved(req') = ADMIN_MOBILE)
        /\ (nReq' = nReq + 1 /\ req'.op \in AdminOps /\ Resolved(req') # ADMIN_MOBILE) =>
              (resp'.status = 403 /\ products' = products /\ orders' = orders)
      ]_vars

\* a delete of an existing product by a customer was refused
C7_Witness ==
    /\ req.op = "delete_product" /\ resp.status = 403
    /\ Resolved(req) = CustMobile
    /\ \E p \in products : p.id = 1

\* ------------------------------------------------------------ order placement alone
\* 0.004 a pinch: a price below one cent
Saffron == Str(<<"S", "a", "f", "f", "r", "o", "n">>)
Pinch == Str(<<"p", "i", "n", "c", "h">>)
ItemSaffron == [name |-> Saffron, price |-> Num(4), quantity |-> Num(3), unit |-> Pinch]
ItemNoPrice == [name |-> Rice, price |-> Missing, quantity |-> Num(1), unit |-> Kg]

OrderItems == {ItemRice, ItemSaffron, ItemNoName, ItemNoPrice}

RECURSIVE SeqsUpTo(_, _)
SeqsUpTo(S, n) ==
    IF n = 0 THEN {<<>>}
    ELSE LET shorter == SeqsUpTo(S, n - 1)
         IN  shorter \cup {Append(q, x) : q \in shorter, x \in S}

OrderCarts == {NoCart} \cup {Cart(q) : q \in SeqsUpTo(OrderItems, MaxCart)}

\* (mobile, address_id) of the order requests: the customer with their address,
\* a missing field, an unregistered phone, an address that does not exist
OrderWho == {<<CustMobile, Num(1)>>, <<Missing, Num(1)>>, <<CustMobile, Missing>>,
             <<ADMIN_MOBILE, Num(1)>>, <<CustMobile, Num(2)>>}

NextOrder ==
    /\ nReq < MaxOrderRequests
    /\ \/ \E w \in OrderWho, c \in OrderCarts : PlaceOrder(w[1], w[2], c)
       \/ MyOrders(CustMobile)

SpecOrder == InitSeeded /\ [][NextOrder]_vars

RECURSIVE SumLines(_)
SumLines(lines) ==
    IF lines = <<>> THEN 0
    ELSE Head(lines).price * Head(lines).quantity + SumLines(Tail(lines))

\* C4: for every order, total_amount is the sum of price x quantity over the
\* item rows stored for it, and the rows of an order just placed are the cart's
\* entries, one each, with the cart's name, price, quantity and unit.
C4_TotalIsSumOfItems ==
    /\ \A o \in orders : o.total_amount = SumLines(ItemsOf(order_items, o.id))
    /\ (req.op = "place_order" /\ resp.status = 201) =>
          ItemsOf(order_items, resp.data) =
             [k \in 1..Len(req.cart.items) |->
                 [product_name |-> req.cart.items[k].name,
                  price |-> req.cart.items[k].price.n,
                  quantity |-> req.cart.items[k].quantity.n,
                  unit |-> req.cart.items[k].unit]]

\* C5: a successful placeOrder adds exactly 1 to orders_placed and exactly the
\* total it computed from the cart (the sum of price x quantity) to
\* orders_total_value; one that fails with 400, 404 or an insert failure
\* leaves both counters as they were.
C5_OrderCounters ==
    [][ (req'.op = "place_order" /\ nReq' = nReq + 1) =>
          IF resp'.status = 201
          THEN /\ MetricValue(metrics', "orders_placed") =
                     MetricValue(metrics, "orders_placed") + 1
               /\ MetricValue(metrics', "orders_total_value") =
                     MetricValue(metrics, "orders_total_value")
                     + SumLines([k \in 1..Len(req'.cart.items) |->
                                   [price |-> req'.cart.items[k].price.n,
                                    quantity |-> req'.cart.items[k].quantity.n]])
          ELSE /\ resp'.status \in {400, 404, 500}
               /\ MetricValue(metrics', "orders_placed") = MetricValue(metrics, "orders_placed")
               /\ MetricValue(metrics', "orders_total_value") =
                     MetricValue(metrics, "orders_total_value")
      ]_vars

\* after one order was counted, a second call failed on its second item
C5_Witness ==
    /\ req.op = "place_order" /\ resp.msg = "KeyError in item"
    /\ Len(req.cart.items) = 2 /\ FirstBad(req.cart.items) = 2
    /\ MetricValue(metrics, "orders_placed") = 1
    /\ MetricValue(metrics, "orders_total_value") = 100000

\* ------------------------------------------------------------ concurrent requests
\* One process per request in flight, each on a connection of its own.  A
\* step is one statement sent to PostgreSQL (READ COMMITTED): a statement
\* sees the rows committed before it starts and the rows of its own
\* transaction; rows written by a transaction become visible to the others at
\* conn.commit(), and a connection given up without commit is rolled back.
Procs == 1..NProcs

Idle == [op |-> "none", pc |-> "idle", mobile |-> Null, address_id |-> Null,
         cart |-> NoCart, user_id |-> 0, order_id |-> 0, k |-> 0,
         tx_orders |-> {}, tx_items |-> {}, rows |-> <<>>, result |-> <<>>,
         status |-> 0]

TxnCarts == {Cart(<<ItemRice>>), Cart(<<ItemRice, ItemRice>>),
             Cart(<<ItemRice, ItemNoName>>), Cart(<<ItemNoName>>)}

InitTxn ==
    /\ users = SeedUsers /\ products = {} /\ addresses = SeedAddresses
    /\ orders = {} /\ order_items = {}
    /\ seq = SeedSeq
    /\ registered = (CustMobile.s :> Secret)
    /\ placed = {}
    /\ metrics = ("app_start_time" :> StartTime)
    /\ req = NoRequest
    /\ resp = NoResponse
    /\ nReq = 0
    /\ proc = [p \in Procs |-> Idle]
    /\ thr = <<>>
    /\ metrics_lock = 0

TxnFrame == UNCHANGED <<users, products, addresses, req, resp, nReq, thr,
                        metrics_lock, registered, placed>>

\* place_order up to its first statement: the checks on the body, then
\* SELECT id FROM users, then the total
PO_SelectUser(p, mobile, address_id, cart) ==
    LET found == UserByMobile(users, mobile)
        st == IF ~Truthy(mobile) \/ ~Truthy(address_id) \/ ~CartTruthy(cart) THEN 400
              ELSE IF found = {} THEN 404
              ELSE IF ~PriceQtyOk(cart.items) THEN 500
              ELSE 0
    IN  /\ proc[p].pc = "idle"
        /\ proc' = [proc EXCEPT ![p] =
              [@ EXCEPT !.op = "place_order", !.mobile = mobile,
                        !.address_id = address_id, !.cart = cart,
                        !.user_id = IF st = 0 THEN (CHOOSE u \in found : TRUE).id ELSE 0,
                        !.status = st,
                        !.pc = IF st = 0 THEN "insert_order" ELSE "respond"]]
        /\ UNCHANGED <<orders, order_items, seq, metrics>>
        /\ TxnFrame

\* a slip: the order row is committed by its own statement
PO_InsertOrder_autocommit(p) ==
    LET id == NextVal(seq, "orders")
        me == proc[p]
        row == OrderRow(id, me.user_id, me.address_id, cart_total(me.cart.items))
    IN  /\ me.pc = "insert_order"
        /\ seq' = Advance(seq, "orders", 1)
        /\ IF AddressExists(addresses, me.address_id)
           THEN /\ orders' = orders \cup {row}
                /\ proc' = [proc EXCEPT ![p] = [@ EXCEPT !.order_id = id, !.pc = "insert_item"]]
           ELSE /\ orders' = orders
                /\ proc' = [proc EXCEPT ![p] = [@ EXCEPT !.status = 500, !.pc = "respond"]]
        /\ UNCHANGED <<order_items, metrics>>
        /\ TxnFrame

\* INSERT INTO orders ... RETURNING id: the row is written in the transaction
PO_InsertOrder(p) ==
    LET id == NextVal(seq, "orders")
        me == proc[p]
        row == OrderRow(id, me.user_id, me.address_id, cart_total(me.cart.items))
    IN  /\ me.pc = "insert_order"
        /\ seq' = Advance(seq, "orders", 1)
        /\ proc' = [proc EXCEPT ![p] =
              IF AddressExists(addresses, me.address_id)
              THEN [@ EXCEPT !.order_id = id, !.tx_orders = {row}, !.pc = "insert_item"]
              ELSE [@ EXCEPT !.status = 500, !.pc = "respond"]]
        /\ UNCHANGED <<orders, order_items, metrics>>
        /\ TxnFrame

\* one turn of "for item in cart": INSERT INTO order_items, or KeyError
PO_InsertItem(p) ==
    LET me == proc[p]
        item == me.cart.items[me.k + 1]
        id == NextVal(seq, "order_items")
    IN  /\ me.pc = "insert_item"
        /\ me.k < Len(me.cart.items)
        /\ IF item.name = Missing \/ item.unit = Missing
           THEN /\ proc' = [proc EXCEPT ![p] = [@ EXCEPT !.status = 500, !.pc = "respond"]]
                /\ seq' = seq
           ELSE /\ proc' = [proc EXCEPT ![p] =
                      [@ EXCEPT !.tx_items = @ \cup {ItemRow(id, me.order_id, item)},
                                !.k = @ + 1]]
                /\ seq' = Advance(seq, "order_items", 1)
        /\ UNCHANGED <<orders, order_items, metrics>>
        /\ TxnFrame

\* conn.commit(): the rows of the transaction become visible together
PO_Commit(p) ==
    LET me == proc[p]
    IN  /\ me.pc = "insert_item"
        /\ me.k = Len(me.cart.items)
        /\ orders' = orders \cup me.tx_orders
        /\ order_items' = order_items \cup me.tx_items
        /\ proc' = [proc EXCEPT ![p] =
              [@ EXCEPT !.tx_orders = {}, !.tx_items = {}, !.status = 201, !.pc = "respond"]]
        /\ UNCHANGED <<seq, metrics>>
        /\ TxnFrame

\* the end of the request: the two track_metric calls after a commit, then
\* after_request; a transaction left open is rolled back with its connection
PO_Respond(p) ==
    LET me == proc[p]
        r == Response(me.status, "-", me.order_id)
    IN  /\ me.op = "place_order"
        /\ me.pc = "respond"
        /\ metrics' = after_request(place_order_metrics(metrics, r, me.cart), me.status)
        /\ proc' = [proc EXCEPT ![p] = [@ EXCEPT !.tx_orders = {}, !.tx_items = {}, !.pc = "done"]]
        /\ UNCHANGED <<orders, order_items, seq>>
        /\ TxnFrame

\* my_orders: SELECT id FROM users, then the orders of the user joined with
\* their addresses, newest first
MO_SelectOrders(p, mobile) ==
    LET found == UserByMobile(users, mobile)
        mine == {o \in orders : \E u \in found : o.user_id = u.id}
        rows == JoinedOrders(mine, addresses)
    IN  /\ proc[p].pc = "idle"
        /\ proc' = [proc EXCEPT ![p] =
              [@ EXCEPT !.op = "my_orders", !.mobile = mobile, !.rows = rows,
                        !.pc = IF rows = <<>> THEN "respond" ELSE "select_items",
                        !.status = 200]]
        /\ UNCHANGED <<orders, order_items, seq, metrics>>
        /\ TxnFrame

\* admin_orders, past the gate: every order joined with its user and address
AO_SelectOrders(p) ==
    LET rows == JoinedOrders({o \in orders : \E u \in users : u.id = o.user_id}, addresses)
    IN  /\ proc[p].pc = "idle"
        /\ proc' = [proc EXCEPT ![p] =
              [@ EXCEPT !.op = "admin_orders", !.mobile = ADMIN_MOBILE, !.rows = rows,
                        !.pc = IF rows = <<>> THEN "respond" ELSE "select_items",
                        !.status = 200]]
        /\ UNCHANGED <<orders, order_items, seq, metrics>>
        /\ TxnFrame

\* one turn of "for order in orders": SELECT ... FROM order_items WHERE order_id
MO_SelectItems(p) ==
    LET me == proc[p]
        o == me.rows[Len(me.result) + 1]
        view == OrderView(o, addresses, ItemsOf(order_items, o.id))
    IN  /\ me.pc = "select_items"
        /\ proc' = [proc EXCEPT ![p] =
              [@ EXCEPT !.result = Append(@, view),
                        !.pc = IF Len(me.result) + 1 = Len(me.rows)
                               THEN "respond" ELSE "select_items"]]
        /\ UNCHANGED <<orders, order_items, seq, metrics>>
        /\ TxnFrame

MO_Respond(p) ==
    /\ proc[p].op \in {"my_orders", "admin_orders"}
    /\ proc[p].pc = "respond"
    /\ metrics' = after_request(metrics, proc[p].status)
    /\ proc' = [proc EXCEPT ![p] = [@ EXCEPT !.pc = "done"]]
    /\ UNCHANGED <<orders, order_items, seq>>
    /\ TxnFrame

NextTxn ==
    \E p \in Procs :
        \/ \E a \in {Num(1), Num(2)}, c \in TxnCarts : PO_SelectUser(p, CustMobile, a, c)
        \/ PO_InsertOrder(p)
        \/ PO_InsertItem(p)
        \/ PO_Commit(p)
        \/ PO_Respond(p)
        \/ MO_SelectOrders(p, CustMobile)
        \/ AO_SelectOrders(p)
        \/ MO_SelectItems(p)
        \/ MO_Respond(p)

SpecTxn == InitTxn /\ [][NextTxn]_vars

Readers == {p \in Procs : proc[p].op \in {"my_orders", "admin_orders"}}
Writers == {p \in Procs : proc[p].op = "place_order"}

\* C1: whatever the interleaving of placeOrder with the two listings, no
\* listing holds an order without items: an order a reader has fetched comes
\* with all the item rows of the call that placed it.
C1_OrderVisibleWithItems ==
    \A r \in Readers : \A i \in 1..Len(proc[r].result) :
        /\ proc[r].result[i].items # <<>>
        /\ \A w \in Writers :
              proc[w].order_id = proc[r].result[i].id =>
                 Len(proc[r].result[i].items) = Len(proc[w].cart.items)

\* a listing that ran beside a placeOrder of two items returned its order
C1_Witness ==
    \E r \in Readers, w \in Writers :
        /\ proc[r].pc = "done"
        /\ Len(proc[r].result) = 1
        /\ proc[r].result[1].id = proc[w].order_id
        /\ Len(proc[r].result[1].items) = 2
        /\ proc[w].pc = "respond"

RowsOf(p, os, its) ==
    {o \in os : o.id = proc[p].order_id} \cup {i \in its : i.order_id = proc[p].order_id}

\* C2: when placeOrder fails after its order row was inserted, the step that
\* fails leaves orders and order_items as they were, and neither then nor
\* later do they hold a row of that call.
C2_FailedOrderLeavesNothing ==
    [][ \A p \in Procs :
          /\ (proc[p].pc = "insert_item" /\ proc'[p].status = 500) =>
                /\ orders' = orders /\ order_items' = order_items
                /\ RowsOf(p, orders', order_items') = {}
          /\ (proc[p].status = 500 /\ proc[p].order_id # 0) =>
                RowsOf(p, orders', order_items') = {}
      ]_vars

\* the second item of a call failed after the order and the first item were
\* inserted, beside an order that another call committed
C2_Witness ==
    \E p \in Writers :
        /\ proc[p].status = 500 /\ proc[p].order_id # 0 /\ proc[p].k = 1
        /\ orders # {}

\* ------------------------------------------------------------ threads in track_metric
\* "metrics[name] += value" is a read of the counter (defaultdict stores 0.0
\* for a name it does not hold) and a store of the sum; another thread may
\* run between the two unless metrics_lock keeps it out.
Threads == 1..NThreads

TrackNames == {"orders_placed", "products_viewed"}

\* snap is the dict a get_all_metrics call has copied so far; at is history:
\* the map as it stood when that call took the lock
ThreadIdle == [pc |-> "idle", name |-> "-", tmp |-> 0, snap |-> <<>>, at |-> <<>>]

InitTrack ==
    /\ users = {} /\ products = {} /\ addresses = {}
    /\ orders = {} /\ order_items = {}
    /\ seq = EmptySeq
    /\ registered = <<>>
    /\ placed = {}
    /\ metrics = (("app_start_time" :> StartTime) @@ ("products_viewed" :> 2))
    /\ req = NoRequest
    /\ resp = NoResponse
    /\ nReq = 0
    /\ proc = <<>>
    /\ thr = [t \in Threads |-> ThreadIdle]
    /\ metrics_lock = 0

TrackFrame == UNCHANGED <<users, products, addresses, orders, order_items, seq,
                          req, resp, nReq, proc, registered, placed>>

\* a slip: no lock taken
T_Enter_nolock(t, name) ==
    /\ thr[t].pc = "idle"
    /\ thr' = [thr EXCEPT ![t] = [@ EXCEPT !.pc = "read", !.name = name]]
    /\ UNCHANGED <<metrics, metrics_lock>>
    /\ TrackFrame

\* track_metric(name): with metrics_lock
T_Enter(t, name) ==
    /\ thr[t].pc = "idle"
    /\ metrics_lock = 0
    /\ metrics_lock' = t
    /\ thr' = [thr EXCEPT ![t] = [@ EXCEPT !.pc = "read", !.name = name]]
    /\ UNCHANGED metrics
    /\ TrackFrame

\* metrics[name], the left operand of +=
T_Read(t) ==
    /\ thr[t].pc = "read"
    /\ thr' = [thr EXCEPT ![t] = [@ EXCEPT !.pc = "write",
                                           !.tmp = MetricValue(metrics, thr[t].name)]]
    /\ metrics' = [k \in DOMAIN metrics \cup {thr[t].name} |-> MetricValue(metrics, k)]
    /\ UNCHANGED metrics_lock
    /\ TrackFrame

\* metrics[name] = <sum>
T_Write(t) ==
    /\ thr[t].pc = "write"
    /\ metrics' = [k \in DOMAIN metrics \cup {thr[t].name} |->
                      IF k = thr[t].name THEN thr[t].tmp + 1 ELSE metrics[k]]
    /\ thr' = [thr EXCEPT ![t] = [@ EXCEPT !.pc = "release"]]
    /\ UNCHANGED metrics_lock
    /\ TrackFrame

\* leaving the with block
T_Exit(t) ==
    /\ thr[t].pc = "release"
    /\ metrics_lock' = 0
    /\ thr' = [thr EXCEPT ![t] = [@ EXCEPT !.pc = "done"]]
    /\ UNCHANGED metrics
    /\ TrackFrame

\* a slip: the snapshot taken without the lock
S_Enter_nolock(t) ==
    /\ thr[t].pc = "idle"
    /\ thr' = [thr EXCEPT ![t] = [@ EXCEPT !.pc = "copy", !.name = "snapshot",
                                           !.at = metrics]]
    /\ UNCHANGED <<metrics, metrics_lock>>
    /\ TrackFrame

\* get_all_metrics(): with metrics_lock
S_Enter(t) ==
    /\ thr[t].pc = "idle"
    /\ metrics_lock = 0
    /\ metrics_lock' = t
    /\ thr' = [thr EXCEPT ![t] = [@ EXCEPT !.pc = "copy", !.name = "snapshot",
                                           !.at = metrics]]
    /\ UNCHANGED metrics
    /\ TrackFrame

\* snapshot = dict(metrics): the next key of the map and its value are copied
S_Copy(t) ==
    LET todo == DOMAIN metrics \ DOMAIN thr[t].snap
        k == CHOOSE x \in todo : TRUE
    IN  /\ thr[t].pc = "copy"
        /\ todo # {}
        /\ thr' = [thr EXCEPT ![t] = [@ EXCEPT !.snap = (k :> metrics[k]) @@ @]]
        /\ UNCHANGED <<metrics, metrics_lock>>
        /\ TrackFrame

\* return snapshot, leaving the with block
S_Exit(t) ==
    /\ thr[t].pc = "copy"
    /\ DOMAIN metrics \subseteq DOMAIN thr[t].snap
    /\ metrics_lock' = 0
    /\ thr' = [thr EXCEPT ![t] = [@ EXCEPT !.pc = "done"]]
    /\ UNCHANGED metrics
    /\ TrackFrame

NextTrack ==
    \E t \in Threads :
        \/ \E name \in TrackNames : T_Enter(t, name)
        \/ T_Read(t)
        \/ T_Write(t)
        \/ T_Exit(t)
        \/ S_Enter(t)
        \/ S_Copy(t)
        \/ S_Exit(t)

SpecTrack == InitTrack /\ [][NextTrack]_vars

Stored(name) == {t \in Threads : thr[t].name = name /\ thr[t].pc \in {"release", "done"}}
Started(name) == IF name = "products_viewed" THEN 2 ELSE 0

\* C3: N concurrent track(name, 1) add exactly N to the counter, in every
\* interleaving: at any moment the counter is its starting value (zero for a
\* counter that was absent) plus the number of calls that have stored.
C3_NoLostUpdate ==
    \A name \in TrackNames :
        MetricValue(metrics, name) = Started(name) + Cardinality(Stored(name))

\* every thread is done, all on the counter that was absent, which holds N
C3_Witness ==
    /\ \A t \in Threads : thr[t].pc = "done" /\ thr[t].name = "orders_placed"
    /\ MetricValue(metrics, "orders_placed") = NThreads

\* ------------------------------------------------------------ order status
\* The admin's status updates over the orders of one customer.
Delivered == Str(<<"D", "E", "L", "I", "V", "E", "R", "E", "D">>)
StatusGates == {<<Missing, ADMIN_MOBILE>>, <<Missing, CustMobile>>}
StatusOrderIds == {Missing, Num(1), Num(2)}
StatusValues == {Missing, Placed, Shipped, Delivered}

NextStatus ==
    /\ nReq < MaxRequests
    /\ \/ PlaceOrder(CustMobile, Num(1), Cart(<<ItemRice>>))
       \/ \E g \in StatusGates, o \in StatusOrderIds, st \in StatusValues :
             UpdateOrderStatus(g[1], g[2], o, st)
       \/ MyOrders(CustMobile)

SpecStatus == InitSeeded /\ [][NextStatus]_vars

\* a well-formed status update sent by the admin for an order id that no row has
UnknownOrderStep ==
    /\ req'.op = "update_order_status"
    /\ req'.candidate = ADMIN_MOBILE
    /\ Truthy(req'.order_id) /\ Truthy(req'.status)
    /\ \A o \in orders : o.id # req'.order_id.n

\* C11 as stated: updateOrderStatus by the admin for an order id that matches
\* no order answers 404, mutates no order row and changes no metric counter.
C11_UnknownOrderNoMetric ==
    [][UnknownOrderStep =>
          /\ resp'.status = 404
          /\ orders' = orders /\ order_items' = order_items
          /\ metrics' = metrics
      ]_vars

\* C11, amended: updateOrderStatus by the admin for an order id that matches
\* no order answers 404 and mutates no order row; of the metric counters only
\* errors_4xx changes, by exactly 1, as for every 4xx response.
C11_UnknownOrder ==
    [][UnknownOrderStep =>
          /\ resp'.status = 404
          /\ orders' = orders /\ order_items' = order_items
          /\ \A name \in DOMAIN metrics \cup DOMAIN metrics' :
                MetricValue(metrics', name) =
                   MetricValue(metrics, name) + (IF name = "errors_4xx" THEN 1 ELSE 0)
      ]_vars

\* the admin asked for order 2 while only order 1 exists
C11_Witness ==
    /\ req.op = "update_order_status" /\ req.candidate = ADMIN_MOBILE
    /\ req.order_id = Num(2) /\ req.status = Shipped
    /\ resp.status = 404
    /\ {o.id : o \in orders} = {1}
    /\ MetricValue(metrics, "errors_4xx") = 1

\* C12: an order is created with status PLACED and keeps its status until a
\* successful updateOrderStatus names it; a successful updateOrderStatus(k, s)
\* gives order k the status s whatever its status was, and changes nothing
\* else: no other field of order k, no item row, no other order.
C12_StatusLifecycle ==
    [][LET updated == req'.op = "update_order_status" /\ resp'.status = 200
       IN  /\ \A o \in orders' :
                 (\A x \in orders : x.id # o.id) => o.status = Placed
           /\ ~updated => orders \subseteq orders'
           /\ updated =>
                 /\ \E o \in orders : o.id = req'.order_id.n
                 /\ orders' = {IF o.id = req'.order_id.n
                               THEN [o EXCEPT !.status = req'.status]
                               ELSE o : o \in orders}
                 /\ order_items' = order_items
      ]_vars

\* order 1 was moved on while order 2, placed after it, still is PLACED
C12_Witness ==
    /\ req.op = "update_order_status" /\ resp.status = 200
    /\ req.order_id = Num(1) /\ req.status = Delivered
    /\ \E o \in orders : o.id = 1 /\ o.status = Delivered
    /\ \E o \in orders : o.id = 2 /\ o.status = Placed

\* ------------------------------------------------------------ order validation
\* a cart entry with one of its four fields absent
LacksField(item) ==
    item.name = Missing \/ item.price = Missing \/ item.quantity = Missing \/ item.unit = Missing

\* what the order workflow calls an invalid request
InvalidOrder(rq) ==
    \/ ~Truthy(rq.mobile) \/ ~Truthy(rq.address_id) \/ ~CartTruthy(rq.cart)
    \/ \E k \in 1..Len(rq.cart.items) : LacksField(rq.cart.items[k])

\* C13: placeOrder answers ValidationError (400) and writes no order or item
\* row whenever phone, addressId or cart is missing, the cart is empty, or a
\* cart item lacks one of name, price, quantity, unit; the outcome is decided
\* before the store is touched (no id is drawn from a sequence).
C13_ValidationFirst ==
    [][(req'.op = "place_order" /\ InvalidOrder(req')) =>
          /\ resp'.status = 400
          /\ orders' = orders /\ order_items' = order_items
          /\ seq' = seq
      ]_vars

\* ------------------------------------------------------------ order integrity
\* C14: every order references an address that exists and belongs to the
\* user who owns the order; placeOrder with another user's address id never
\* produces an order.
C14_AddressOfOwner ==
    \A o \in orders :
        \E a \in addresses : a.id = o.address_id /\ a.user_id = o.user_id

\* ------------------------------------------------------------ no account, no write
HasAccount(mobile) == \E u \in users : u.mobile = mobile.s

\* a request that passes the field checks of its handler
PassesFieldChecks(rq) ==
    IF rq.op = "add_address"
    THEN TenDigits(rq.mobile) /\ Truthy(rq.address_line)
    ELSE Truthy(rq.mobile) /\ Truthy(rq.address_id) /\ CartTruthy(rq.cart)

\* C15: user rows are created by authenticateOrRegister only; addAddress and
\* placeOrder for a phone that has no account leave users, addresses, orders
\* and order items as they were and, once the request's fields are accepted,
\* answer UserNotFound (404).
C15_NoAccountNoWrite ==
    [][/\ req'.op # "auth" => users' = users
       /\ (req'.op \in {"add_address", "place_order"} /\ ~HasAccount(req'.mobile)) =>
             /\ <<users', addresses', orders', order_items'>> =
                   <<users, addresses, orders, order_items>>
             /\ resp'.status \in {400, 404}
             /\ PassesFieldChecks(req') => resp'.status = 404
      ]_vars

\* an order for the admin's phone, which has no account, next to the
\* customer's account and address
C15_Witness ==
    /\ req.op = "place_order" /\ req.mobile = ADMIN_MOBILE /\ resp.status = 404
    /\ users = SeedUsers /\ addresses = SeedAddresses
    /\ orders = {} /\ order_items = {}

\* ------------------------------------------------------------ concurrent auth
\* POST /api/auth statement by statement, one connection per request.  The
\* SELECT sees committed rows; the INSERT meets the unique index on
\* users.mobile: it waits while another transaction holds an uncommitted row
\* with the same mobile and fails once such a row is committed.
AuthIdle == [pc |-> "idle", mobile |-> Null, password |-> Null,
             tx_users |-> {}, result |-> NoResponse]


InitAuthTxn ==
    /\ \/ /\ users = {} /\ addresses = {} /\ seq = EmptySeq
          /\ registered = <<>>
       \/ /\ users = SeedUsers /\ addresses = SeedAddresses /\ seq = SeedSeq
          /\ registered = (CustMobile.s :> Secret)
    /\ products = {} /\ orders = {} /\ order_items = {}
    /\ placed = {}
    /\ metrics = ("app_start_time" :> StartTime)
    /\ req = NoRequest
    /\ resp = NoResponse
    /\ nReq = 0
    /\ proc = [p \in Procs |-> AuthIdle]
    /\ thr = <<>>
    /\ metrics_lock = 0

AuthTxnFrame == UNCHANGED <<products, addresses, orders, order_items, thr,
                            metrics_lock, placed>>

\* request parsing, the three checks, SELECT password FROM users WHERE mobile=%s
\* and, for a known phone, check_password_hash
AU_Select(p, mobile_in, password_in) ==
    LET mobile == Get(mobile_in)
        password == Get(password_in)
        r == auth_response(users, mobile, password)
    IN  /\ proc[p].pc = "idle"
        /\ proc' = [proc EXCEPT ![p] =
                       [pc |-> IF r.status = 201 THEN "insert" ELSE "respond",
                        mobile |-> mobile, password |-> password,
                        tx_users |-> {}, result |-> r]]
        /\ UNCHANGED <<users, seq, metrics, req, resp, nReq, registered>>
        /\ AuthTxnFrame

\* INSERT INTO users (mobile, password), without the unique index
AU_Insert_no_unique(p, salt) ==
    LET me == proc[p]
        row == [id |-> NextVal(seq, "users"), mobile |-> me.mobile.s,
                password |-> generate_password_hash(salt, me.password)]
    IN  /\ me.pc = "insert"
        /\ seq' = Advance(seq, "users", 1)
        /\ proc' = [proc EXCEPT ![p].pc = "commit", ![p].tx_users = {row}]
        /\ UNCHANGED <<users, metrics, req, resp, nReq, registered>>
        /\ AuthTxnFrame

\* INSERT INTO users (mobile, password); users.mobile is UNIQUE
AU_Insert(p, salt) ==
    LET me == proc[p]
        row == [id |-> NextVal(seq, "users"), mobile |-> me.mobile.s,
                password |-> generate_password_hash(salt, me.password)]
    IN  /\ me.pc = "insert"
        /\ \A q \in Procs \ {p} : \A u \in proc[q].tx_users : u.mobile # me.mobile.s
        /\ seq' = Advance(seq, "users", 1)
        /\ IF UserByMobile(users, me.mobile) # {}
           THEN proc' = [proc EXCEPT ![p].pc = "respond",
                                     ![p].result = Response(500, "UniqueViolation", "-")]
           ELSE proc' = [proc EXCEPT ![p].pc = "commit", ![p].tx_users = {row}]
        /\ UNCHANGED <<users, metrics, req, resp, nReq, registered>>
        /\ AuthTxnFrame

\* conn.commit()
AU_Commit(p) ==
    LET me == proc[p]
    IN  /\ me.pc = "commit"
        /\ users' = users \cup me.tx_users
        /\ registered' = (me.mobile.s :> me.password) @@ registered
        /\ proc' = [proc EXCEPT ![p].pc = "respond", ![p].tx_users = {}]
        /\ UNCHANGED <<seq, metrics, req, resp, nReq>>
        /\ AuthTxnFrame

\* the response leaves; track_metric of the login outcome and after_request
AU_Respond(p) ==
    LET me == proc[p]
    IN  /\ me.pc = "respond"
        /\ req' = [op |-> "auth", mobile |-> me.mobile, password |-> me.password]
        /\ resp' = me.result
        /\ metrics' = after_request(auth_metrics(metrics, me.result), me.result.status)
        /\ nReq' = nReq + 1
        /\ proc' = [proc EXCEPT ![p].pc = "idle"]
        /\ UNCHANGED <<users, seq, registered>>
        /\ AuthTxnFrame


\* (mobile, password) of the calls in flight
AuthTxnCalls == {<<CustMobile, Secret>>, <<ADMIN_MOBILE, Secret>>,
                 <<ADMIN_MOBILE, Hunter>>, <<ShortMobile, Secret>>}

InFlight == {p \in Procs : proc[p].pc # "idle"}

NextAuthTxn ==
    \/ /\ nReq + Cardinality(InFlight) < MaxAuthCalls
       /\ \E p \in Procs, c \in AuthTxnCalls : AU_Select(p, c[1], c[2])
    \/ \E p \in Procs : AU_Insert(p, "s1")
    \/ \E p \in Procs : AU_Commit(p)
    \/ \E p \in Procs : AU_Respond(p)

SpecAuthTxn == InitAuthTxn /\ [][NextAuthTxn]_vars

\* C16: after any interleaving of authenticateOrRegister calls, concurrent
\* first calls for one unseen phone included, no two user rows carry the same
\* phone and every stored phone is a string of exactly 10 digits.
C16_OneUserPerPhone ==
    /\ \A u1, u2 \in users : u1.mobile = u2.mobile => u1 = u2
    /\ \A u \in users : TenDigits(Str(u.mobile))

\* two first calls for the admin's phone both found no row; one registered it,
\* the other failed on the unique index
C16_Witness ==
    \E p, q \in Procs :
        /\ proc[p].mobile = ADMIN_MOBILE /\ proc[q].mobile = ADMIN_MOBILE
        /\ proc[p].pc = "idle" /\ proc[p].result.status = 201
        /\ proc[q].pc = "idle" /\ proc[q].result.msg = "UniqueViolation"
        /\ Cardinality({u \in users : u.mobile = ADMIN_MOBILE.s}) = 1

\* ------------------------------------------------------------ order history
\* entry e of a listing shows the order that was placed as g, item for item
ListsPlaced(e, g) ==
    /\ e.id = g.order_id
    /\ Len(e.items) = Len(g.cart.items)
    /\ \A i \in 1..Len(e.items) :
          /\ e.items[i].product_name = g.cart.items[i].name
          /\ e.items[i].quantity = g.cart.items[i].quantity.n
          /\ e.items[i].unit = g.cart.items[i].unit

\* C17: once placeOrder for phone p has succeeded with order id k and N items,
\* every later listOrdersForUser(p), whatever was done in between, includes
\* order k with exactly those N items.
C17_OrderStaysListed ==
    req.op = "my_orders" =>
        \A g \in placed :
            g.mobile = req.mobile =>
                \E k \in 1..Len(resp.data) : ListsPlaced(resp.data[k], g)

\* the customer lists a two-item order that the admin has moved to SHIPPED
\* since it was placed
C17_Witness ==
    /\ req.op = "my_orders" /\ req.mobile = CustMobile
    /\ \E g \in placed :
          /\ g.mobile = CustMobile /\ Len(g.cart.items) = 2
          /\ \E o \in orders : o.id = g.order_id /\ o.status = Shipped
          /\ \E k \in 1..Len(resp.data) :
                resp.data[k].id = g.order_id /\ Len(resp.data[k].items) = 2

\* ------------------------------------------------------------ listings
ListedIds(data) == {data[k].id : k \in 1..Len(data)}
StrictlyDescending(data) == \A k \in 1..(Len(data) - 1) : data[k].id > data[k + 1].id
OwnedBy(mobile) ==
    {o \in orders : \E u \in users : u.mobile = mobile.s /\ u.id = o.user_id}

\* C18: listOrdersForUser(phone) returns exactly the orders owned by the user
\* with that phone, strictly descending by order id, and the empty list when
\* there is no such user; listAllOrders returns every order, strictly
\* descending by order id.
C18_Listings ==
    /\ req.op = "my_orders" =>
          /\ ListedIds(resp.data) = {o.id : o \in OwnedBy(req.mobile)}
          /\ \A k \in 1..Len(resp.data) : resp.data[k].user_id \in {o.user_id : o \in OwnedBy(req.mobile)}
          /\ StrictlyDescending(resp.data)
          /\ ~HasAccount(req.mobile) => resp.data = <<>>
    /\ (req.op = "admin_orders" /\ resp.status = 200) =>
          /\ ListedIds(resp.data) = {o.id : o \in orders}
          /\ StrictlyDescending(resp.data)

\* the customer's two orders, the later one first
C18_Witness ==
    /\ req.op = "my_orders" /\ req.mobile = CustMobile
    /\ Len(resp.data) = 2
    /\ resp.data[1].id = 2 /\ resp.data[2].id = 1

\* ------------------------------------------------------------ catalog and ledger
\* C19: placeOrder, whether it succeeds or fails, leaves every product row as
\* it was (stock is not decremented, nothing reads or writes the catalog).
C19_OrdersLeaveCatalog ==
    [][req'.op = "place_order" => products' = products]_vars

\* an order for rice was accepted while the catalog lists rice
C19_Witness ==
    /\ req.op = "place_order" /\ resp.status = 201
    /\ \E p \in products : \E k \in 1..Len(req.cart.items) : req.cart.items[k].name = p.name

ProductOps == {"add_product", "update_product", "delete_product"}

\* C20: the admin's product operations (add, update, delete) leave every
\* existing order and order item as it was: the rows keep the names and
\* prices of order time.
C20_CatalogLeavesOrders ==
    [][req'.op \in ProductOps =>
          orders' = orders /\ order_items' = order_items]_vars

\* rice was repriced after an order for it had been stored at the old price
C20_Witness ==
    /\ req.op = "update_product" /\ resp.status = 200
    /\ \E p \in products : p.name = Rice /\ p.price = 45500
    /\ \E i \in order_items : i.product_name = Rice /\ i.price = 50000
    /\ orders # {}

\* ------------------------------------------------------------ snapshot
Snapshots == {t \in Threads : thr[t].name = "snapshot"}

\* what thread t has copied is the map as it stood when t took the lock
AsAtOneInstant(t) ==
    /\ \A k \in DOMAIN thr[t].snap :
          k \in DOMAIN thr[t].at /\ thr[t].snap[k] = thr[t].at[k]
    /\ thr[t].pc = "done" => DOMAIN thr[t].snap = DOMAIN thr[t].at

\* C21: snapshot() is a point-in-time read: the values of one snapshot are
\* those the map held at one instant (when the lock was taken), no track()
\* takes effect while a snapshot is reading, and snapshot() changes no counter.
C21_SnapshotAtomic ==
    [][/\ \A t \in Threads : thr'[t].name = "snapshot" => AsAtOneInstant(t)'
       /\ (\E t \in Snapshots : thr[t].pc = "copy") => metrics' = metrics
       /\ \A t \in Threads :
             (thr'[t] # thr[t] /\ thr'[t].name = "snapshot") => metrics' = metrics
      ]_vars

\* a snapshot taken between two track calls: it holds orders_placed = 1 and
\* the counter has moved on to 2 since
C21_Witness ==
    \E t \in Threads :
        /\ thr[t].name = "snapshot" /\ thr[t].pc = "done"
        /\ DOMAIN thr[t].snap = {"app_start_time", "products_viewed", "orders_placed"}
        /\ thr[t].snap["orders_placed"] = 1
        /\ MetricValue(metrics, "orders_placed") = 2

\* ------------------------------------------------------------ phone validator
\* The validator as its callers show it: get_addresses answers 400 exactly
\* when it rejects the phone of the path, add_address answers 400 "Valid
\* mobile number required" exactly when it rejects the phone of the body.
Sevens(n) == [i \in 1..n |-> "7"]
PhoneChars == {"a", "+", ArabicThree}

\* the digit strings of every length up to MaxPhoneLen, and each of them with
\* one character replaced
PhoneStrings ==
    {Str(Sevens(n)) : n \in 0..MaxPhoneLen} \cup
    {Str([Sevens(p[1]) EXCEPT ![p[2]] = c]) :
        p \in {q \in (1..MaxPhoneLen) \X (1..MaxPhoneLen) : q[2] <= q[1]},
        c \in PhoneChars}
PhoneValues == PhoneStrings \cup {Null, Missing, Num(0), Num(1234567890)}

NextValidate ==
    /\ nReq < MaxValidations
    /\ \/ \E v \in PhoneStrings \ {Str(<<>>)} : GetAddresses(v)
       \/ \E v \in PhoneValues : AddAddress(v, Lane)

SpecValidate == Init /\ [][NextValidate]_vars

\* C23: the phone validator accepts a value if and only if it is a string of
\* exactly 10 numeric digits; null, the empty string, a non-string, a string
\* of 9 or 11 digits and a 10-character string with a non-digit are rejected.
C23_ValidatorIff ==
    /\ req.op = "get_addresses" => (resp.status = 200 <=> TenDigits(req.mobile))
    /\ req.op = "add_address" =>
          (resp.msg = "Valid mobile number required" <=> ~TenDigits(req.mobile))

\* ten sevens, accepted
C23_Witness ==
    /\ req.op = "get_addresses" /\ req.mobile = Str(Sevens(10))
    /\ resp.status = 200

\* ------------------------------------------------------------ metrics responses
\* Logins that succeed and fail, product listings, orders, and the metrics
\* read in between.
NextMetrics ==
    /\ nReq < MaxMetricRequests
    /\ \/ \E pw \in {Secret, Hunter} : Auth(CustMobile, pw, "s1")
       \/ GetProducts
       \/ PlaceOrder(CustMobile, Num(1), Cart(<<ItemRice>>))
       \/ GetMetrics
       \/ HealthCheck

SpecMetrics == InitSeeded /\ [][NextMetrics]_vars

\* rate (in hundredths of a percent) is exactly num / den x 100, or 0 for den = 0
ExactPercent(rate, num, den) ==
    IF den = 0 THEN rate = 0 ELSE rate * den = num * 10000

\* rate is num / den x 100 to the nearest hundredth, or 0 for den = 0
RoundedPercent(rate, num, den) ==
    IF den = 0 THEN rate = 0
    ELSE /\ 2 * (rate * den - num * 10000) <= den
         /\ 2 * (num * 10000 - rate * den) <= den

\* C22 as stated: in every metrics response the two rates are 0 for a zero
\* denominator and otherwise exactly login_successful / (login_successful +
\* login_failed) x 100 and orders_placed / products_viewed x 100, on the
\* counters of the same response.
C22_RatesExact ==
    req.op = "get_metrics" =>
        LET d == resp.data
        IN  /\ ExactPercent(d["login_success_rate_percent"],
                            MetricValue(d, "login_successful"),
                            MetricValue(d, "login_successful") + MetricValue(d, "login_failed"))
            /\ ExactPercent(d["conversion_rate_percent"],
                            MetricValue(d, "orders_placed"), MetricValue(d, "products_viewed"))

\* C22, amended: in every metrics response the two rates are 0 for a zero
\* denominator and otherwise those quotients x 100 rounded to two decimals,
\* on the counters of the same response.
C22_RatesRounded ==
    req.op = "get_metrics" =>
        LET d == resp.data
        IN  /\ RoundedPercent(d["login_success_rate_percent"],
                              MetricValue(d, "login_successful"),
                              MetricValue(d, "login_successful") + MetricValue(d, "login_failed"))
            /\ RoundedPercent(d["conversion_rate_percent"],
                              MetricValue(d, "orders_placed"), MetricValue(d, "products_viewed"))

\* two logins of three succeeded: 66.67 percent; nothing was viewed: 0
C22_Witness ==
    /\ req.op = "get_metrics"
    /\ MetricValue(resp.data, "login_successful") = 2
    /\ MetricValue(resp.data, "login_failed") = 1
    /\ resp.data["login_success_rate_percent"] = 6667
    /\ resp.data["conversion_rate_percent"] = 0

Viewed(m) == MetricValue(m, "products_viewed")

\* C24: every GET /api/products adds exactly 1 to products_viewed and no
\* other request changes it, so a snapshot taken after a health check and k
\* listings shows products_viewed k higher than before.
C24_ViewsCounted ==
    [][/\ Viewed(metrics') = Viewed(metrics) + (IF req'.op = "get_products" THEN 1 ELSE 0)
       /\ req'.op = "get_metrics" => Viewed(resp'.data) = Viewed(metrics)
      ]_vars

\* the fifth request reads the metrics after three listings and a request
\* that counts nowhere: products_viewed is 3
C24_Witness ==
    /\ req.op = "get_metrics" /\ nReq = 5
    /\ Viewed(resp.data) = 3
    /\ DOMAIN metrics = {"app_start_time", "products_viewed"}

\* ------------------------------------------------------------ counters and rows
\* C25: at every moment orders_placed is at most the number of order rows
\* committed since the process started: it is counted after the commit only,
\* never for an order that was rolled back or rejected.
C25_CountedAfterCommit ==
    MetricValue(metrics, "orders_placed") <= Cardinality(orders)

\* one request was rolled back and answered 500, the other committed and was
\* counted
C25_Witness ==
    /\ \E p \in Procs : proc[p].op = "place_order" /\ proc[p].pc = "done"
                        /\ proc[p].status = 500
    /\ \E p \in Procs : proc[p].op = "place_order" /\ proc[p].pc = "done"
                        /\ proc[p].status = 201
    /\ MetricValue(metrics, "orders_placed") = 1
    /\ Cardinality(orders) = 1

\* ------------------------------------------------------------ error counters
Errors4xx(m) == MetricValue(m, "errors_4xx")
Errors5xx(m) == MetricValue(m, "errors_5xx")

\* C26: both error counters start at zero; a request answered 400..499 adds
\* exactly 1 to errors_4xx, one answered 500 or above adds exactly 1 to
\* errors_5xx, and a response below 400 changes neither, so that errors_4xx +
\* errors_5xx is the number of failed requests since the process started.
C26_ErrorCounters ==
    /\ Errors4xx(metrics) = 0 /\ Errors5xx(metrics) = 0
    /\ [][/\ Errors4xx(metrics') = Errors4xx(metrics) +
                (IF resp'.status >= 400 /\ resp'.status <= 499 THEN 1 ELSE 0)
          /\ Errors5xx(metrics') = Errors5xx(metrics) +
                (IF resp'.status >= 500 THEN 1 ELSE 0)
         ]_vars

\* after a 500 and a 400, a request answered below 400 left both counters at 1
C26_Witness ==
    /\ nReq = 3 /\ resp.status < 400
    /\ Errors4xx(metrics) = 1 /\ Errors5xx(metrics) = 1

====
